---- MODULE Spec2Model ----
(***************************************************************************)
(* U-Well: the chat proxy endpoint of server.js (bounded retry with        *)
(* backoff, reply extraction and crisis classification), its posture       *)
(* analysis proxy, and the client of chat.js (session id, guided-exercise  *)
(* state machine, conversation transcript).                                *)
(***************************************************************************)
EXTENDS Integers, Sequences, FiniteSets, TLC

(***************************************************************************)
(* JavaScript values.  A value is a record tagged by t; the payload field  *)
(* has a different name for each tag.                                      *)
(***************************************************************************)
Undef == [t |-> "undefined"]
JNull == [t |-> "null"]
JNum == [t |-> "number"]
JStr(s) == [t |-> "string", v |-> s]
JArr(a) == [t |-> "array", a |-> a]
JBool(b) == [t |-> "boolean", b |-> b]
JObj(o) == [t |-> "object", o |-> o]

NoObj == [type |-> Undef, text |-> Undef, helplines |-> Undef, request_photo |-> Undef]

\* A string: optional code fence, optional surrounding whitespace, and a core
\* that is either plain text s or the JSON encoding of the object obj.
Plain(s) == [fence |-> FALSE, pad |-> FALSE, json |-> FALSE, s |-> s, obj |-> NoObj]
Blank == [fence |-> FALSE, pad |-> TRUE, json |-> FALSE, s |-> "", obj |-> NoObj]
JsonOf(o) == [fence |-> FALSE, pad |-> FALSE, json |-> TRUE, s |-> "", obj |-> o]
EmptyStr == Plain("")

\* String.prototype.trim
Trim(x) == [x EXCEPT !.pad = FALSE]

\* JavaScript truthiness
Truthy(x) ==
  CASE x.t = "undefined" -> FALSE
    [] x.t = "null" -> FALSE
    [] x.t = "number" -> TRUE
    [] x.t = "string" -> x.v # EmptyStr
    [] x.t = "array" -> TRUE
    [] x.t = "boolean" -> x.b
    [] x.t = "object" -> TRUE

\* a || b
OrElse(a, b) == IF Truthy(a) THEN a ELSE b

(***************************************************************************)
(* server.js: constants and helpers                                        *)
(***************************************************************************)
maxAttempts == 3
BackoffBaseMs == 1000
BackoffCapMs == 60000

fallbackHelplines ==
  [en |-> << [name |-> "AASRA", phone |-> "+91-9820466726"],
             [name |-> "NIMHANS", phone |-> "080-46110007"] >>,
   hi |-> << [name |-> "AASRA", phone |-> "+91-9820466726"],
             [name |-> "NIMHANS-hi", phone |-> "080-46110007"] >>]

\* fallbackHelplines[lang]: undefined for a lang the table does not hold
FallbackFor(lang) ==
  IF lang \in DOMAIN fallbackHelplines THEN JArr(fallbackHelplines[lang]) ELSE Undef

Min(a, b) == IF a < b THEN a ELSE b
Max(a, b) == IF a > b THEN a ELSE b

\* backoff without the doubling
backoff_NoDoubling(n) == Min(BackoffBaseMs, BackoffCapMs)

\* Math.min(1000 * 2 ** (attempt - 1), 60000)
backoff(n) == Min(BackoffBaseMs * 2 ^ (n - 1), BackoffCapMs)

stripCodeFences(s) == [s EXCEPT !.fence = FALSE, !.pad = FALSE]

\* JSON.parse accepts surrounding whitespace, not a code fence
parseJsonSafe(x) ==
  IF x.t # "string" \/ ~Truthy(x) THEN JNull
  ELSE IF x.v.json /\ ~x.v.fence THEN JObj(x.v.obj)
  ELSE JNull

\* parsed?.field
Field(parsed, f) == IF parsed.t = "object" THEN parsed.o[f] ELSE Undef

safeText(v) == IF v.t = "string" THEN v ELSE JStr(EmptyStr)

\* extraction that stringifies an envelope it does not recognise
extractReplyFromProviderObj_Stringify(j) ==
  IF j.shape = "gemini" /\ Truthy(JStr(j.content)) THEN
    LET text == JStr(stripCodeFences(j.content))
        parsed == parseJsonSafe(text)
    IN IF Truthy(parsed) THEN safeText(OrElse(parsed.o.text, text)) ELSE text
  ELSE IF j.shape = "openai" /\ Truthy(JStr(j.content)) THEN
    JStr(stripCodeFences(j.content))
  ELSE JStr(Plain("[object Object]"))

\* A provider result: shape names the envelope, content the text it carries.
extractReplyFromProviderObj(j) ==
  IF j.shape = "gemini" /\ Truthy(JStr(j.content)) THEN
    LET text == JStr(stripCodeFences(j.content))
        parsed == parseJsonSafe(text)
    IN IF Truthy(parsed) THEN safeText(OrElse(parsed.o.text, text)) ELSE text
  ELSE IF j.shape = "openai" /\ Truthy(JStr(j.content)) THEN
    JStr(stripCodeFences(j.content))
  ELSE JNull

(***************************************************************************)
(* Characters of the user message, for toLowerCase and includes            *)
(***************************************************************************)
LowerChar(c) ==
  CASE c = "H" -> "h" [] c = "O" -> "o" [] c = "P" -> "p" [] c = "E" -> "e"
    [] c = "L" -> "l" [] c = "S" -> "s" [] c = "I" -> "i"
    [] OTHER -> c

toLowerCase(s) == [i \in DOMAIN s |-> LowerChar(s[i])]

includes(s, sub) ==
  \E i \in 0..(Len(s) - Len(sub)) : SubSeq(s, i + 1, i + Len(sub)) = sub

triggers ==
  { <<"s","u","i","c","i","d","e">>,
    <<"k","i","l","l"," ","m","y","s","e","l","f">>,
    <<"e","n","d"," ","m","y"," ","l","i","f","e">>,
    <<"h","o","p","e","l","e","s","s">>,
    <<"w","a","n","t"," ","t","o"," ","d","i","e">> }

HasTrigger(message) == \E t \in triggers : includes(toLowerCase(message), t)

(***************************************************************************)
(* Inputs of one POST /api/chat request                                    *)
(***************************************************************************)
NoMessage == << "<undefined>" >>

Messages ==
  { <<"I"," ","f","e","e","l"," ","h","o","p","e","l","e","s","s">>,
    <<"H","O","P","E","L","E","S","S">>,
    <<"w","a","n","t"," ","t","o"," ","d","i","e">>,
    <<"I"," ","h","o","p","e"," ","s","o">>,
    <<"H","i">> }

Locales == {"en", "hi"}
Langs == Locales \cup {"fr"}
NoLang == "<undefined>"
Providers == {"google", "openai"}

Bodies == [message : Messages \cup {NoMessage}, lang : Langs \cup {NoLang}]

\* What the model may put in a structured payload
ModelHelplines == << [name |-> "Model Line", phone |-> "100"] >>
ModelText == Plain("It will be ok")

PayloadObjs ==
  [type : {Undef, JStr(Plain("reply")), JStr(Plain("crisis"))},
   text : {Undef, JNum, JStr(ModelText), JStr(Blank)},
   helplines : {Undef, JArr(<< >>), JArr(ModelHelplines)},
   request_photo : {Undef, JBool(TRUE)}]

Cores == {Plain(""), Plain("Hello")} \cup {JsonOf(o) : o \in PayloadObjs}

\* bare, fenced, or surrounded by whitespace
Contents ==
  Cores \cup {[c EXCEPT !.fence = TRUE] : c \in Cores}
        \cup {[c EXCEPT !.pad = TRUE] : c \in Cores}

ShapeOf(p) == IF p = "google" THEN "gemini" ELSE "openai"

\* What a call of provider p can resolve to
ProviderResults(p) ==
  {[shape |-> "other", content |-> EmptyStr]}
    \cup {[shape |-> ShapeOf(p), content |-> c] : c \in Contents}

NoResult == [shape |-> "none", content |-> EmptyStr]

(***************************************************************************)
(* Responses                                                               *)
(***************************************************************************)
NoRes == [status |-> 0, type |-> "", text |-> Undef, helplines |-> Undef,
          request_photo |-> Undef, error |-> ""]

Json200(type, text, helplines, photo) ==
  [status |-> 200, type |-> type, text |-> text, helplines |-> helplines,
   request_photo |-> photo, error |-> ""]

ErrorRes(status, error) ==
  [status |-> status, type |-> "", text |-> Undef, helplines |-> Undef,
   request_photo |-> Undef, error |-> error]

EmptyReplyText(l) ==
  IF l = "hi" THEN Plain("hi: Sorry, I couldn't generate a response. How are you feeling?")
  ELSE Plain("Sorry, I couldn't generate a response. How are you feeling?")

CrisisText(l) ==
  IF l = "hi" THEN Plain("hi: You're not alone, and I'm here to help. Please reach out to someone who can support you.")
  ELSE Plain("You're not alone, and I'm here to help. Please reach out to someone who can support you.")

ServerErrorText(l) ==
  IF l = "hi" THEN Plain("hi: Sorry, a server error occurred. Please try again.")
  ELSE Plain("Sorry, a server error occurred. Please try again.")

\* classification that throws on an empty reply, so that it is retried
Classify_EmptyThrows(j, message, l) ==
  LET replyText == extractReplyFromProviderObj(j)
      parsed == parseJsonSafe(replyText)
  IN IF ~Truthy(replyText) \/ Trim(replyText.v) = EmptyStr THEN
       [throws |-> TRUE, res |-> NoRes]
     ELSE IF Field(parsed, "type") = JStr(Plain("crisis")) THEN
       [throws |-> FALSE,
        res |-> Json200("crisis", Field(parsed, "text"),
                        OrElse(Field(parsed, "helplines"), FallbackFor(l)), Undef)]
     ELSE IF message = NoMessage THEN
       [throws |-> TRUE, res |-> NoRes]
     ELSE IF HasTrigger(message) THEN
       [throws |-> FALSE,
        res |-> Json200("crisis", JStr(CrisisText(l)), FallbackFor(l), Undef)]
     ELSE
       [throws |-> FALSE,
        res |-> Json200("reply", JStr(Trim(replyText.v)), Undef,
                        OrElse(Field(parsed, "request_photo"), JBool(FALSE)))]

\* The body of the try block after the provider call has returned j:
\* either a response or a thrown TypeError (message.toLowerCase on undefined).
Classify(j, message, l) ==
  LET replyText == extractReplyFromProviderObj(j)
      parsed == parseJsonSafe(replyText)
  IN IF ~Truthy(replyText) \/ Trim(replyText.v) = EmptyStr THEN
       [throws |-> FALSE,
        res |-> Json200("reply", JStr(EmptyReplyText(l)), Undef, JBool(FALSE))]
     ELSE IF Field(parsed, "type") = JStr(Plain("crisis")) THEN
       [throws |-> FALSE,
        res |-> Json200("crisis", Field(parsed, "text"),
                        OrElse(Field(parsed, "helplines"), FallbackFor(l)), Undef)]
     ELSE IF message = NoMessage THEN
       [throws |-> TRUE, res |-> NoRes]
     ELSE IF HasTrigger(message) THEN
       [throws |-> FALSE,
        res |-> Json200("crisis", JStr(CrisisText(l)), FallbackFor(l), Undef)]
     ELSE
       [throws |-> FALSE,
        res |-> Json200("reply", JStr(Trim(replyText.v)), Undef,
                        OrElse(Field(parsed, "request_photo"), JBool(FALSE)))]


(***************************************************************************)
(* chat.js: analysis results and the guided exercise                       *)
(***************************************************************************)
MaxRecs == 3
MaxAnalyses == 2
MaxSends == 2
MaxUploads == 1

NoScore == -1
Scores == {NoScore, 0, 85}

\* a Step is a string here; the empty string is the falsy one
StepText(i) ==
  CASE i = 1 -> "Sit straight" [] i = 2 -> "Relax shoulders" [] OTHER -> "Keep going!"

\* the recommendation lists of up to n steps: all steps given, or one step empty
RecLists(n) ==
  {[i \in 1..k |-> StepText(i)] : k \in 0..n}
    \cup {[i \in 1..k |-> IF i = e THEN "" ELSE StepText(i)] : k \in 1..n, e \in 1..n}

\* result.recommendations: an array of steps, or something that is no array
NoArray == [isArray |-> FALSE, items |-> << >>]
ArrayOf(items) == [isArray |-> TRUE, items |-> items]

Analysis(score, recs) == [score |-> score, recommendations |-> recs]
NoAnalysis == Analysis(NoScore, NoArray)

\* every recommendation list with a score, and every score (also none) without
\* recommendations and with the longest list
AnalysisResults ==
  {Analysis(sc, NoArray) : sc \in Scores}
    \cup {Analysis(85, ArrayOf(r)) : r \in RecLists(MaxRecs)}
    \cup {Analysis(sc, ArrayOf([i \in 1..MaxRecs |-> StepText(i)])) : sc \in Scores}

NoExercise == [live |-> FALSE, analysis |-> NoAnalysis, currentStep |-> 0, totalSteps |-> 0]

\* recommendations[idx], undefined (falsy, "") outside the array
StepAt(analysis, idx) ==
  LET items == analysis.recommendations.items
  IN IF idx + 1 \in DOMAIN items THEN items[idx + 1] ELSE ""

\* renderCurrentExerciseStep: the controls in the message list afterwards
RenderedControls(es, ctrls) ==
  IF ~es.live THEN ctrls
  ELSE IF StepAt(es.analysis, es.currentStep) = "" THEN ctrls
  ELSE ctrls \cup {[idx |-> es.currentStep, total |-> es.totalSteps]}

\* renderCurrentExerciseStep: the bubble it appends, if any
RenderedBubble(es, bubble) ==
  IF es.live /\ StepAt(es.analysis, es.currentStep) = "" THEN "Step not available." ELSE bubble

\* an exercise is started for every array, also an empty one
ExerciseAfterAnalysis_AcceptsEmpty(result) ==
  LET recommendations == result.recommendations
  IN IF recommendations.isArray
       THEN [live |-> TRUE, analysis |-> result, currentStep |-> 0,
             totalSteps |-> Len(recommendations.items)]
       ELSE NoExercise

\* handleAnalysisResult, lines 403-418: the exercise state it leaves
ExerciseAfterAnalysis(result) ==
  LET recommendations == result.recommendations
  IN IF recommendations.isArray /\ Len(recommendations.items) > 0
       THEN [live |-> TRUE, analysis |-> result, currentStep |-> 0,
             totalSteps |-> Len(recommendations.items)]
       ELSE NoExercise

\* goToStep without the clamp
goToStep_NoClamp(es, newIndex) ==
  IF ~es.live THEN es ELSE [es EXCEPT !.currentStep = newIndex]

\* goToStep: the exercise state it leaves
goToStep(es, newIndex) ==
  IF ~es.live THEN es
  ELSE [es EXCEPT !.currentStep = Max(0, Min(es.totalSteps - 1, newIndex))]

\* a summary that counts the steps visited instead of totalSteps
CompletionMsg_CurrentStep(es) ==
  [steps |-> es.currentStep + 1,
   score |-> IF es.analysis.score # NoScore /\ es.analysis.score # 0
               THEN es.analysis.score ELSE 0]

\* completeExercise: the summary it reports
CompletionMsg(es) ==
  [steps |-> es.totalSteps,
   score |-> IF es.analysis.score # NoScore /\ es.analysis.score # 0
               THEN es.analysis.score ELSE 0]

(***************************************************************************)
(* chat.js: the transcript and sendMessage                                 *)
(***************************************************************************)
UserTurn(text, id) == [role |-> "user", text |-> text, send |-> id]
ModelTurn(text, id) == [role |-> "model", text |-> text, send |-> id]

\* server.js lines 117 and 124: what the provider is given for one request,
\* the system prompt, the turns of history, then the message as a user turn
ProviderRequest(history, messageTurn) ==
  << [role |-> "system", text |-> "systemPrompt", send |-> 0] >> \o history
     \o << messageTurn >>

\* Array.prototype.pop
Pop(h) == IF h = << >> THEN h ELSE SubSeq(h, 1, Len(h) - 1)

SendTexts == {"", "hello"}

\* JSON bodies a 2xx answer to /api/chat may carry, as the client sees them
ChatResponse(type, text, helplines, analysis, photo) ==
  [type |-> type, text |-> text, helplines |-> helplines, analysis |-> analysis,
   request_photo |-> photo]

NoResponse == ChatResponse("none", "", "none", NoAnalysis, FALSE)

ChatResponses ==
  { ChatResponse("reply", "It will be ok", "none", NoAnalysis, FALSE),
    ChatResponse("reply", "It will be ok", "none", NoAnalysis, TRUE),
    ChatResponse("reply", "", "none", NoAnalysis, FALSE),
    ChatResponse("crisis", "You are not alone", "list", NoAnalysis, FALSE),
    ChatResponse("crisis", "You are not alone", "empty", NoAnalysis, FALSE),
    ChatResponse("crisis", "You are not alone", "none", NoAnalysis, FALSE),
    ChatResponse("crisis", "You are not alone", "malformed", NoAnalysis, FALSE),
    ChatResponse("crisis", "", "list", NoAnalysis, FALSE),
    ChatResponse("error", "", "none", NoAnalysis, FALSE),
    ChatResponse("null", "", "none", NoAnalysis, FALSE),
    ChatResponse("analysis", "", "none", Analysis(85, ArrayOf(<<"Sit straight", "Relax shoulders">>)), FALSE),
    ChatResponse("analysis", "", "none", Analysis(NoScore, NoArray), FALSE) }

\* lines 568-585: finalText
FinalText(r) ==
  CASE r.type = "null" -> "Sorry, no response received."
    [] r.type = "reply" /\ r.text # "" -> r.text
    [] r.type = "crisis" /\ r.text # "" -> r.text
    [] r.type = "analysis" -> "Received analysis."
    [] OTHER -> "Sorry, I could not understand the response."

\* lines 576 and 590: Array.isArray(helplines) && helplines.length
ShowsCrisis(r) ==
  r.type = "crisis" /\ r.text # "" /\ r.helplines \in {"list", "malformed"}


(***************************************************************************)
(* server.js: /api/analyze                                                 *)
(***************************************************************************)
\* a JSON object of an analysis: the fields it has, and their values
AnalyzeObj(fields, type, summary, score, recommendations, notes) ==
  [fields |-> fields, type |-> type, summary |-> summary, score |-> score,
   recommendations |-> recommendations, notes |-> notes]

NoAnalyzeObj == AnalyzeObj({}, "", "", NoScore, NoArray, "")

\* what the body of a 2xx answer of the posture service may parse to
UpstreamData ==
  { AnalyzeObj(F,
               IF "type" \in F THEN "error" ELSE "",
               IF "summary" \in F THEN "Good posture" ELSE "",
               IF "score" \in F THEN 85 ELSE NoScore,
               IF "recommendations" \in F THEN ArrayOf(<<"Sit straight">>) ELSE NoArray,
               IF "notes" \in F THEN "Slight slouch" ELSE "") :
      F \in SUBSET {"type", "summary", "score", "recommendations", "notes"} }

\* line 195: { type: 'analysis', ...data }
Relayed(data) ==
  [data EXCEPT !.fields = data.fields \cup {"type"},
               !.type = IF "type" \in data.fields THEN data.type ELSE "analysis"]

OfflineNote == "Python server offline or unreachable."

\* lines 198-203: the object the catch block answers with
FallbackAnalysis(l) ==
  AnalyzeObj({"type", "summary", "recommendations", "notes"}, "analysis",
             IF l = "hi" THEN "hi: Demo: Good posture." ELSE "Demo: Good posture.",
             NoScore,
             ArrayOf(IF l = "hi" THEN <<"hi: Stay straight!">> ELSE <<"Keep going!">>),
             OfflineNote)

NoAnalyzeRes == [status |-> 0, error |-> "", json |-> NoAnalyzeObj]
AnalyzeJson(obj) == [status |-> 200, error |-> "", json |-> obj]
AnalyzeError(status, error) == [status |-> status, error |-> error, json |-> NoAnalyzeObj]

\* what the request to /api/analyze carries
AnalyzeRequests == [file : BOOLEAN, lang : Langs \cup {NoLang}]


(***************************************************************************)
(* chat.js: the session id                                                 *)
(***************************************************************************)
MaxEvents == 5

\* localStorage.getItem answers null
NoSession == << >>

\* 'sess_' + Date.now() + '_' + random: the n-th id ever generated
FreshSession(n) == <<"sess", n>>

\* the id a visit before this storage was last looked at may have left
EarlierSession == FreshSession(0)

Generated(log) == Cardinality({i \in DOMAIN log : log[i].generated})


(***************************************************************************)
(* server.js: two /api/chat requests handled side by side.  Each call of   *)
(* the handler has its own message, lang, attempt, lastProviderRaw and     *)
(* client; the module holds no variable that a handler writes.             *)
(***************************************************************************)
Requests == {1, 2}

\* what a provider call of one request came to
Threw == [threw |-> TRUE, result |-> NoResult]
Returned(j) == [threw |-> FALSE, result |-> j]

PairBodies ==
  { [message |-> <<"H","i">>, lang |-> "en"],
    [message |-> <<"H","O","P","E","L","E","S","S">>, lang |-> "hi"],
    [message |-> NoMessage, lang |-> NoLang] }

PairResults(p) ==
  { [shape |-> "other", content |-> EmptyStr],
    [shape |-> ShapeOf(p), content |-> Plain("Hello")] }

HandlerAt(b, pc) ==
  [body |-> b, lang |-> NoLang, attempt |-> 0, pc |-> pc, timer |-> 0,
   slept |-> 0, log |-> << >>, res |-> NoRes, sent |-> 0]

IdleRequests == [i \in Requests |-> HandlerAt([message |-> NoMessage, lang |-> NoLang], "none")]

\* whether the attempt that got outcome o ends in the catch block
Fails(o, b, l) == o.threw \/ Classify(o.result, b.message, l).throws

SoftApology(l) == Json200("reply", JStr(ServerErrorText(l)), Undef, JBool(FALSE))

\* The handler of one request, run on its own: where it stands after the
\* provider outcomes in log, from the state st it had before them
RECURSIVE RunAlone(_, _, _)
RunAlone(b, log, st) ==
  IF log = << >> \/ st.pc = "done" THEN st
  ELSE LET o == Head(log)
           l == st.lang
           next ==
             IF Fails(o, b, l)
               THEN IF st.attempt >= maxAttempts
                      THEN [st EXCEPT !.pc = "done", !.res = SoftApology(l)]
                      ELSE [st EXCEPT !.attempt = st.attempt + 1,
                                      !.due = st.due + backoff(st.attempt)]
               ELSE [st EXCEPT !.pc = "done",
                               !.res = Classify(o.result, b.message, l).res]
       IN RunAlone(b, Tail(log), next)

\* ... from the start of the handler
Alone(b, cred, log) ==
  LET l == IF b.lang = NoLang THEN "en" ELSE b.lang
  IN IF ~cred
       THEN [lang |-> l, attempt |-> 0, due |-> 0, pc |-> "done",
             res |-> ErrorRes(500, "Missing API credentials for selected provider")]
       ELSE RunAlone(b, log, [lang |-> l, attempt |-> 1, due |-> 0, pc |-> "await",
                              res |-> NoRes])

(***************************************************************************)
(* State                                                                   *)
(***************************************************************************)
VARIABLES
  provider,      \* process.env.LLM_PROVIDER
  credentials,   \* whether the API key of the selected provider is set
  body,          \* req.body
  lang,          \* lang after its default
  attempt,       \* loop counter of the retry loop
  chatPc,        \* position of the /api/chat handler
  timer,         \* ms left of the pending sleep(backoff)
  res,           \* the response sent, NoRes while none
  sent,          \* number of responses sent
  calls,         \* number of provider calls made
  threw,         \* number of provider calls that threw
  returned,      \* number of provider calls that returned
  failed,        \* number of attempts that ended in the catch block
  slept,         \* ms spent in sleep(backoff)
  result,        \* what the last provider call returned
  chatHistory,   \* the transcript
  exerciseState, \* the live exercise, NoExercise while null
  controls,      \* the Prev/Next/Complete groups in the message list
  lastBubble,    \* the bot bubble appended last
  completions,   \* the completion summaries emitted so far
  sends,         \* the sendMessage calls made, by number
  crisisVisible, \* whether the crisis box is shown
  arrivals,      \* number of analysis results handled
  lastOp,        \* the client operation that ran last
  arrived,       \* the analysis result handled last
  photoRequestActive, \* "Track if AI requested photo"
  speech,        \* the speakText calls of the operation that ran last
  autoSpeak,     \* whether text-to-speech is switched on
  received,      \* the /api/chat response handled last, NoResponse while none
  analyzeReq,    \* what the request to /api/analyze carries
  alang,         \* lang of /api/analyze after its default
  analyzePc,     \* position of the /api/analyze handler
  analyzeRes,    \* the response of /api/analyze, NoAnalyzeRes while none
  upstream,      \* how the call to the posture service went
  storage,       \* localStorage['uwell_session'], NoSession while it holds none
  sessionId,     \* the page's sessionId, NoSession before the script has run
  sessionLog,    \* page loads and requests so far, with the id each one used
  reqs           \* the /api/chat handlers running side by side, by request

svars == <<provider, credentials, body, lang, attempt, chatPc, timer, res, sent,
           calls, threw, returned, failed, slept, result>>

cvars == <<chatHistory, exerciseState, controls, lastBubble, completions, sends,
           crisisVisible, arrivals, lastOp,
           arrived, photoRequestActive, speech, autoSpeak, received>>

avars == <<analyzeReq, alang, analyzePc, analyzeRes, upstream>>

pvars == <<storage, sessionId, sessionLog>>

qvars == <<reqs>>

vars == <<svars, cvars, avars, pvars, qvars>>

\* one request has arrived at the server; the page has just loaded
ChatInit ==
  /\ provider \in Providers
  /\ credentials \in BOOLEAN
  /\ body \in Bodies
  /\ lang = NoLang
  /\ attempt = 0
  /\ chatPc = "received"
  /\ timer = 0
  /\ res = NoRes
  /\ sent = 0
  /\ calls = 0
  /\ threw = 0
  /\ returned = 0
  /\ failed = 0
  /\ slept = 0
  /\ result = NoResult
  /\ chatHistory = << >>
  /\ exerciseState = NoExercise
  /\ controls = {}
  /\ lastBubble = "Hi! I'm U-Well"
  /\ completions = << >>
  /\ sends = << >>
  /\ crisisVisible = FALSE
  /\ arrivals = 0
  /\ lastOp = "load"
  /\ arrived = NoAnalysis
  /\ photoRequestActive = FALSE
  /\ speech = << >>
  /\ autoSpeak = TRUE
  /\ received = NoResponse
  /\ analyzeReq = [file |-> FALSE, lang |-> NoLang]
  /\ alang = NoLang
  /\ analyzePc = "idle"
  /\ analyzeRes = NoAnalyzeRes
  /\ upstream = "none"
  /\ storage = NoSession
  /\ sessionId = NoSession
  /\ sessionLog = << >>
  /\ reqs = IdleRequests

\* res.json(...) / res.status(...).json(...) followed by return
\* a handler that ends without writing its response
Respond_NoSend(r) ==
  /\ chatPc' = "done"
  /\ timer' = 0
  /\ UNCHANGED <<res, sent, attempt>>

Respond(r) ==
  /\ res' = r
  /\ sent' = sent + 1
  /\ chatPc' = "done"
  /\ timer' = 0
  /\ UNCHANGED attempt

\* lines 74-118: destructuring with defaults, client construction, first call
ChatStart ==
  /\ chatPc = "received"
  /\ lang' = IF body.lang = NoLang THEN "en" ELSE body.lang
  /\ IF ~credentials
       THEN /\ res' = ErrorRes(500, "Missing API credentials for selected provider")
            /\ sent' = sent + 1
            /\ chatPc' = "done"
            /\ UNCHANGED <<attempt, calls>>
       ELSE /\ attempt' = 1
            /\ calls' = calls + 1
            /\ chatPc' = "await"
            /\ UNCHANGED <<res, sent>>
  /\ UNCHANGED <<provider, credentials, body, timer, threw, returned, failed,
                 slept, result>>
  /\ UNCHANGED <<cvars, avars, pvars, qvars>>

\* a catch block that answers the last failure with a hard error
Catch_HardError ==
  /\ failed' = failed + 1
  /\ IF attempt >= maxAttempts
       THEN Respond(ErrorRes(500, "Internal Server Error"))
       ELSE /\ timer' = backoff(attempt)
            /\ chatPc' = "sleep"
            /\ UNCHANGED <<res, sent, attempt>>

\* a catch block that does not return on the last failure
Catch_FallsThrough ==
  /\ failed' = failed + 1
  /\ timer' = backoff(attempt)
  /\ chatPc' = "sleep"
  /\ UNCHANGED <<res, sent, attempt>>

\* lines 161-174: the catch block
Catch ==
  /\ failed' = failed + 1
  /\ IF attempt >= maxAttempts
       THEN Respond(Json200("reply", JStr(ServerErrorText(lang)), Undef, JBool(FALSE)))
       ELSE /\ timer' = backoff(attempt)
            /\ chatPc' = "sleep"
            /\ UNCHANGED <<res, sent, attempt>>

\* the awaited provider call rejects
ProviderThrows ==
  /\ chatPc = "await"
  /\ threw' = threw + 1
  /\ Catch
  /\ UNCHANGED <<provider, credentials, body, lang, calls, returned, slept, result>>
  /\ UNCHANGED <<cvars, avars, pvars, qvars>>

\* the awaited provider call resolves to j; lines 119-159
ProviderReturns ==
  /\ chatPc = "await"
  /\ \E j \in ProviderResults(provider) :
       /\ result' = j
       /\ LET c == Classify(j, body.message, lang)
          IN IF c.throws THEN Catch ELSE Respond(c.res) /\ UNCHANGED failed
  /\ returned' = returned + 1
  /\ UNCHANGED <<provider, credentials, body, lang, calls, threw, slept>>
  /\ UNCHANGED <<cvars, avars, pvars, qvars>>

\* time passes while the handler sleeps
BackoffTick ==
  /\ chatPc = "sleep"
  /\ timer > 0
  /\ timer' = Max(0, timer - BackoffBaseMs)
  /\ slept' = slept + Min(timer, BackoffBaseMs)
  /\ UNCHANGED <<provider, credentials, body, lang, attempt, chatPc, res, sent,
                 calls, threw, returned, failed, result>>
  /\ UNCHANGED <<cvars, avars, pvars, qvars>>

\* the sleep resolves: attempt++, loop test, next call; line 176 past the loop
BackoffWake ==
  /\ chatPc = "sleep"
  /\ timer = 0
  /\ attempt' = attempt + 1
  /\ IF attempt + 1 <= maxAttempts
       THEN /\ calls' = calls + 1
            /\ chatPc' = "await"
            /\ UNCHANGED <<res, sent>>
       ELSE /\ res' = ErrorRes(429, "Quota exceeded")
            /\ sent' = sent + 1
            /\ chatPc' = "done"
            /\ UNCHANGED calls
  /\ UNCHANGED <<provider, credentials, body, lang, timer, threw, returned, failed,
                 slept, result>>
  /\ UNCHANGED <<cvars, avars, pvars, qvars>>

ServerNext ==
  \/ ChatStart
  \/ ProviderThrows
  \/ ProviderReturns
  \/ BackoffTick
  \/ BackoffWake


(***************************************************************************)
(* chat.js: operations                                                     *)
(***************************************************************************)
\* the page has just loaded; no request at the server
ClientInit ==
  /\ chatHistory = << >>
  /\ exerciseState = NoExercise
  /\ controls = {}
  /\ lastBubble = "Hi! I'm U-Well"
  /\ completions = << >>
  /\ sends = << >>
  /\ crisisVisible = FALSE
  /\ arrivals = 0
  /\ lastOp = "load"
  /\ arrived = NoAnalysis
  /\ photoRequestActive = FALSE
  /\ speech = << >>
  /\ autoSpeak = TRUE
  /\ received = NoResponse
  /\ provider = "google"
  /\ credentials = TRUE
  /\ body = [message |-> NoMessage, lang |-> NoLang]
  /\ lang = NoLang
  /\ attempt = 0
  /\ chatPc = "idle"
  /\ timer = 0
  /\ res = NoRes
  /\ sent = 0
  /\ calls = 0
  /\ threw = 0
  /\ returned = 0
  /\ failed = 0
  /\ slept = 0
  /\ result = NoResult
  /\ analyzeReq = [file |-> FALSE, lang |-> NoLang]
  /\ alang = NoLang
  /\ analyzePc = "idle"
  /\ analyzeRes = NoAnalyzeRes
  /\ upstream = "none"
  /\ storage = NoSession
  /\ sessionId = NoSession
  /\ sessionLog = << >>
  /\ reqs = IdleRequests

\* one call of speakText: what is spoken, and whether it is uttered (line 139)
Spoken(kind, on) == << [kind |-> kind, aloud |-> on] >>

NoSpeech == << >>

\* handleAnalysisResult, lines 409-413: the first step is spoken
AnalysisSpeech(analysis, on) ==
  IF ExerciseAfterAnalysis(analysis).live THEN Spoken("step", on) ELSE NoSpeech

InFlight(s) == s.pc \in {"fetch", "errorBody", "json"}

\* every send in flight other than number i has been overlapped
Overlapped(ss, i) ==
  [k \in DOMAIN ss |-> IF k # i /\ InFlight(ss[k]) THEN [ss[k] EXCEPT !.overlap = TRUE]
                       ELSE ss[k]]

\* handleAnalysisResult, lines 382-424: bubbles, exercise state, controls
AnalysisBubble(analysis) ==
  LET es == ExerciseAfterAnalysis(analysis)
  IN IF es.live THEN RenderedBubble(es, "Posture: Unknown Score: N/A")
     ELSE "Analysis complete, but no recommendations available."

AnalysisTurn(id) == ModelTurn("Posture: Unknown Score: N/A", id)

\* handleFileSelected / capture: the upload resolves and its analysis is handled
UploadArrives(Results, limit) ==
  /\ arrivals < limit
  /\ \E analysis \in Results :
       /\ exerciseState' = ExerciseAfterAnalysis(analysis)
       /\ controls' = RenderedControls(ExerciseAfterAnalysis(analysis), controls)
       /\ lastBubble' = AnalysisBubble(analysis)
       /\ speech' = AnalysisSpeech(analysis, autoSpeak)
       /\ arrived' = analysis
  /\ chatHistory' = Append(chatHistory, AnalysisTurn(0))
  /\ sends' = Overlapped(sends, 0)
  /\ arrivals' = arrivals + 1
  /\ lastOp' = "analysis"
  /\ UNCHANGED <<completions, crisisVisible, photoRequestActive, autoSpeak>>
  /\ UNCHANGED received
  /\ UNCHANGED <<svars, avars, pvars, qvars>>

\* uploadImageForAnalysis returns null: non-2xx status or network error
UploadFails ==
  /\ lastBubble' = "Network error - try again."
  /\ lastOp' = "uploadFailed"
  /\ speech' = NoSpeech
  /\ UNCHANGED <<chatHistory, exerciseState, controls, completions, sends,
                 crisisVisible, arrivals, arrived, photoRequestActive, autoSpeak>>
  /\ UNCHANGED received
  /\ UNCHANGED <<svars, avars, pvars, qvars>>

\* navigation that speaks the step it shows
GoTo_Speaks(newIndex) ==
  /\ exerciseState' = goToStep(exerciseState, newIndex)
  /\ controls' = RenderedControls(goToStep(exerciseState, newIndex), controls)
  /\ lastBubble' = RenderedBubble(goToStep(exerciseState, newIndex), lastBubble)
  /\ speech' = Spoken("step", autoSpeak)
  /\ UNCHANGED <<chatHistory, completions, sends, crisisVisible, arrivals,
                 arrived, photoRequestActive, autoSpeak>>

\* goToStep and the render it ends with, lines 501-507
GoTo(newIndex) ==
  /\ exerciseState' = goToStep(exerciseState, newIndex)
  /\ controls' = RenderedControls(goToStep(exerciseState, newIndex), controls)
  /\ lastBubble' = RenderedBubble(goToStep(exerciseState, newIndex), lastBubble)
  /\ speech' = NoSpeech
  /\ UNCHANGED <<chatHistory, completions, sends, crisisVisible, arrivals,
                 arrived, photoRequestActive, autoSpeak>>

\* click on an enabled Prev button in the message list
ClickPrev ==
  /\ \E c \in controls : ~(c.idx <= 0) /\ GoTo(c.idx - 1)
  /\ lastOp' = "prev"
  /\ UNCHANGED received
  /\ UNCHANGED <<svars, avars, pvars, qvars>>

\* click on an enabled Next button in the message list
ClickNext ==
  /\ \E c \in controls : ~(c.idx >= c.total - 1) /\ GoTo(c.idx + 1)
  /\ lastOp' = "next"
  /\ UNCHANGED received
  /\ UNCHANGED <<svars, avars, pvars, qvars>>

\* completeExercise without its first line
ClickComplete_NoGuard ==
  /\ controls # {}
  /\ completions' = Append(completions, CompletionMsg(exerciseState))
  /\ speech' = Spoken("completion", autoSpeak)
  /\ lastBubble' = "Exercise complete!"
  /\ exerciseState' = NoExercise
  /\ lastOp' = "complete"
  /\ UNCHANGED <<chatHistory, controls, sends, crisisVisible, arrivals,
                 arrived, photoRequestActive, autoSpeak>>
  /\ UNCHANGED received
  /\ UNCHANGED <<svars, avars, pvars, qvars>>

\* click on a Complete button in the message list: completeExercise
ClickComplete ==
  /\ controls # {}
  /\ IF ~exerciseState.live
       THEN /\ speech' = NoSpeech
            /\ UNCHANGED <<exerciseState, completions, lastBubble>>
       ELSE /\ completions' = Append(completions, CompletionMsg(exerciseState))
            /\ speech' = Spoken("completion", autoSpeak)
            /\ lastBubble' = "Exercise complete!"
            /\ exerciseState' = NoExercise
  /\ lastOp' = "complete"
  /\ UNCHANGED <<chatHistory, controls, sends, crisisVisible, arrivals,
                 arrived, photoRequestActive, autoSpeak>>
  /\ UNCHANGED received
  /\ UNCHANGED <<svars, avars, pvars, qvars>>

\* sendMessage without the hideCrisis() of line 530
SendStart_NoHide ==
  /\ Len(sends) < MaxSends
  /\ \E text \in SendTexts :
       IF text = ""
         THEN UNCHANGED <<chatHistory, sends, crisisVisible>>
         ELSE /\ UNCHANGED crisisVisible
              /\ chatHistory' = Append(chatHistory, UserTurn(text, Len(sends) + 1))
              /\ sends' = Append(Overlapped(sends, 0),
                                 [pc |-> "fetch", text |-> text, before |-> chatHistory,
                                  overlap |-> \E k \in DOMAIN sends : InFlight(sends[k]),
                                  outcome |-> "", after |-> << >>,
                                  timer |-> "armed",
                                  history |-> Append(chatHistory,
                                                     UserTurn(text, Len(sends) + 1))])
  /\ lastOp' = "send"
  /\ speech' = NoSpeech
  /\ UNCHANGED <<exerciseState, controls, lastBubble, completions, arrivals,
                 arrived, photoRequestActive, autoSpeak>>
  /\ UNCHANGED received
  /\ UNCHANGED <<svars, avars, pvars, qvars>>

\* sendMessage up to the awaited fetch, lines 527-553
SendStart ==
  /\ Len(sends) < MaxSends
  /\ \E text \in SendTexts :
       IF text = ""
         THEN UNCHANGED <<chatHistory, sends, crisisVisible>>
         ELSE /\ crisisVisible' = FALSE
              /\ chatHistory' = Append(chatHistory, UserTurn(text, Len(sends) + 1))
              /\ sends' = Append(Overlapped(sends, 0),
                                 [pc |-> "fetch", text |-> text, before |-> chatHistory,
                                  overlap |-> \E k \in DOMAIN sends : InFlight(sends[k]),
                                  outcome |-> "", after |-> << >>,
                                  timer |-> "armed",
                                  history |-> Append(chatHistory,
                                                     UserTurn(text, Len(sends) + 1))])
  /\ lastOp' = "send"
  /\ speech' = NoSpeech
  /\ UNCHANGED <<exerciseState, controls, lastBubble, completions, arrivals,
                 arrived, photoRequestActive, autoSpeak>>
  /\ UNCHANGED received
  /\ UNCHANGED <<svars, avars, pvars, qvars>>

\* a failure path that does not roll the user turn back
SendFails_NoRollback(i, kind, bubble) ==
  /\ lastBubble' = bubble
  /\ chatHistory' = chatHistory
  /\ sends' = [sends EXCEPT ![i].pc = "done", ![i].outcome = kind,
                            ![i].after = chatHistory,
                            ![i].timer = IF kind = "timeout" THEN "fired" ELSE "cleared"]
  /\ lastOp' = "sendFailed"
  /\ speech' = NoSpeech
  /\ UNCHANGED <<exerciseState, controls, completions, crisisVisible, arrivals,
                 arrived, photoRequestActive, autoSpeak>>
  /\ UNCHANGED received
  /\ UNCHANGED <<svars, avars, pvars, qvars>>

\* the failure paths of sendMessage, lines 558-564 and 600-610; the catch block
\* clears the timer
SendFails(i, kind, bubble) ==
  /\ lastBubble' = bubble
  /\ chatHistory' = Pop(chatHistory)
  /\ sends' = [sends EXCEPT ![i].pc = "done", ![i].outcome = kind,
                            ![i].after = Pop(chatHistory),
                            ![i].timer = IF kind = "timeout" THEN "fired" ELSE "cleared"]
  /\ lastOp' = "sendFailed"
  /\ speech' = NoSpeech
  /\ UNCHANGED <<exerciseState, controls, completions, crisisVisible, arrivals,
                 arrived, photoRequestActive, autoSpeak>>
  /\ UNCHANGED received
  /\ UNCHANGED <<svars, avars, pvars, qvars>>

\* the fetch resolves with a 2xx or another status; the timer is cleared
FetchResolves(i) ==
  /\ sends[i].pc = "fetch"
  /\ \E ok \in BOOLEAN :
       sends' = [sends EXCEPT ![i].pc = IF ok THEN "json" ELSE "errorBody",
                              ![i].timer = "cleared"]
  /\ lastOp' = "response"
  /\ speech' = NoSpeech
  /\ UNCHANGED <<chatHistory, exerciseState, controls, lastBubble, completions,
                 crisisVisible, arrivals, arrived, photoRequestActive, autoSpeak>>
  /\ UNCHANGED received
  /\ UNCHANGED <<svars, avars, pvars, qvars>>

\* the fetch rejects: network error
FetchRejects(i) ==
  /\ sends[i].pc = "fetch"
  /\ SendFails(i, "network", "Network or server error - try again later.")

\* the 30 s timer of send i is still pending and fires: controller.abort()
\* rejects what the send awaits with an AbortError
SendTimeout(i) ==
  /\ sends[i].timer = "armed"
  /\ InFlight(sends[i])
  /\ SendFails(i, "timeout", "Request timed out - try again.")

\* non-2xx: the awaited resp.text() settles
ErrorBodyRead(i) ==
  /\ sends[i].pc = "errorBody"
  /\ SendFails(i, "status", "Server error")

\* the awaited resp.json() rejects: unreadable body
JsonRejects(i) ==
  /\ sends[i].pc = "json"
  /\ SendFails(i, "body", "Network or server error - try again later.")

\* the awaited resp.json() resolves to r; lines 566-598, and the catch block
\* when showCrisis throws on a malformed helpline entry
JsonResolves(i) ==
  /\ sends[i].pc = "json"
  /\ \E r \in ChatResponses :
       LET handled == r.type = "analysis"
           es == IF handled THEN ExerciseAfterAnalysis(r.analysis) ELSE exerciseState
           hist1 == IF handled THEN Append(chatHistory, AnalysisTurn(i)) ELSE chatHistory
           hist2 == Append(hist1, ModelTurn(FinalText(r), i))
           throws == ShowsCrisis(r) /\ r.helplines = "malformed"
           hist3 == IF throws THEN Pop(hist2) ELSE hist2
           ss == IF handled THEN Overlapped(sends, i) ELSE sends
       IN /\ exerciseState' = es
          /\ controls' = IF handled THEN RenderedControls(es, controls) ELSE controls
          /\ chatHistory' = hist3
          /\ lastBubble' = IF throws THEN "Network or server error - try again later."
                           ELSE FinalText(r)
          /\ crisisVisible' = IF throws THEN crisisVisible ELSE ShowsCrisis(r)
          /\ sends' = [ss EXCEPT ![i].pc = "done",
                                 ![i].outcome = IF throws THEN "render" ELSE "ok",
                                 ![i].after = hist3]
          /\ received' = r
          /\ arrived' = IF handled THEN r.analysis ELSE arrived
          /\ speech' = (IF handled THEN AnalysisSpeech(r.analysis, autoSpeak) ELSE NoSpeech)
                         \o (IF ShowsCrisis(r) /\ ~throws THEN Spoken("crisis", autoSpeak)
                             ELSE NoSpeech)
                         \o (IF ~throws /\ autoSpeak THEN Spoken("reply", autoSpeak)
                             ELSE NoSpeech)
  /\ lastOp' = "reply"
  /\ UNCHANGED <<completions, arrivals, photoRequestActive, autoSpeak>>
  /\ UNCHANGED <<svars, avars, pvars, qvars>>

\* lines 168-175: click on the speech toggle
ToggleTts ==
  /\ autoSpeak' = ~autoSpeak
  /\ speech' = NoSpeech
  /\ lastOp' = "tts"
  /\ UNCHANGED <<chatHistory, exerciseState, controls, lastBubble, completions, sends,
                 crisisVisible, arrivals, arrived, photoRequestActive>>
  /\ UNCHANGED received
  /\ UNCHANGED <<svars, avars, pvars, qvars>>

\* the guided exercise: uploads and the controls in the message list
ExerciseNext ==
  \/ UploadArrives(AnalysisResults, MaxAnalyses)
  \/ UploadFails
  \/ ToggleTts
  \/ ClickPrev
  \/ ClickNext
  \/ ClickComplete

\* the analysis result that arrives while chat sends are under way
SendAnalysisResults ==
  { Analysis(NoScore, NoArray) }

\* chat sends, overlapping each other and uploads
SendNext ==
  \/ UploadArrives(SendAnalysisResults, MaxUploads)
  \/ SendStart
  \/ \E i \in DOMAIN sends : FetchResolves(i)
  \/ \E i \in DOMAIN sends : FetchRejects(i)
  \/ \E i \in DOMAIN sends : SendTimeout(i)
  \/ \E i \in DOMAIN sends : ErrorBodyRead(i)
  \/ \E i \in DOMAIN sends : JsonRejects(i)
  \/ \E i \in DOMAIN sends : JsonResolves(i)

(***************************************************************************)
(* server.js: the /api/analyze handler                                     *)
(***************************************************************************)
\* one upload has arrived at /api/analyze
AnalyzeInit ==
  /\ analyzeReq \in AnalyzeRequests
  /\ alang = NoLang
  /\ analyzePc = "received"
  /\ analyzeRes = NoAnalyzeRes
  /\ upstream = "none"
  /\ storage = NoSession
  /\ sessionId = NoSession
  /\ sessionLog = << >>
  /\ reqs = IdleRequests
  /\ chatHistory = << >>
  /\ exerciseState = NoExercise
  /\ controls = {}
  /\ lastBubble = "Hi! I'm U-Well"
  /\ completions = << >>
  /\ sends = << >>
  /\ crisisVisible = FALSE
  /\ arrivals = 0
  /\ lastOp = "load"
  /\ arrived = NoAnalysis
  /\ photoRequestActive = FALSE
  /\ speech = << >>
  /\ autoSpeak = TRUE
  /\ received = NoResponse
  /\ provider = "google"
  /\ credentials = TRUE
  /\ body = [message |-> NoMessage, lang |-> NoLang]
  /\ lang = NoLang
  /\ attempt = 0
  /\ chatPc = "idle"
  /\ timer = 0
  /\ res = NoRes
  /\ sent = 0
  /\ calls = 0
  /\ threw = 0
  /\ returned = 0
  /\ failed = 0
  /\ slept = 0
  /\ result = NoResult

\* a catch block that answers with an error status
AnalyzeCatch_BadGateway ==
  /\ analyzeRes' = AnalyzeError(502, "Bad gateway")
  /\ analyzePc' = "done"

\* lines 196-204: the catch block
AnalyzeCatch ==
  /\ analyzeRes' = AnalyzeJson(FallbackAnalysis(alang))
  /\ analyzePc' = "done"

\* lines 180-188: the file check, the lang default, the call to the posture service
AnalyzeStart ==
  /\ analyzePc = "received"
  /\ IF ~analyzeReq.file
       THEN /\ analyzeRes' = AnalyzeError(400, "No image")
            /\ analyzePc' = "done"
            /\ UNCHANGED alang
       ELSE /\ alang' = IF analyzeReq.lang = NoLang THEN "en" ELSE analyzeReq.lang
            /\ analyzePc' = "fetch"
            /\ UNCHANGED analyzeRes
  /\ UNCHANGED <<analyzeReq, upstream>>
  /\ UNCHANGED <<svars, cvars, pvars, qvars>>

\* the awaited fetch rejects: the posture service cannot be reached
UpstreamUnreachable ==
  /\ analyzePc = "fetch"
  /\ upstream' = "unreachable"
  /\ AnalyzeCatch
  /\ UNCHANGED <<analyzeReq, alang>>
  /\ UNCHANGED <<svars, cvars, pvars, qvars>>

\* the awaited fetch resolves, with pyRes.ok or not
UpstreamAnswers ==
  /\ analyzePc = "fetch"
  /\ \E ok \in BOOLEAN :
       /\ analyzePc' = IF ok THEN "json" ELSE "errorText"
       /\ upstream' = IF ok THEN "ok" ELSE "status"
  /\ UNCHANGED <<analyzeReq, alang, analyzeRes>>
  /\ UNCHANGED <<svars, cvars, pvars, qvars>>

\* lines 189-192: the awaited pyRes.text() settles, then throw
UpstreamErrorText ==
  /\ analyzePc = "errorText"
  /\ AnalyzeCatch
  /\ UNCHANGED <<analyzeReq, alang, upstream>>
  /\ UNCHANGED <<svars, cvars, pvars, qvars>>

\* line 194: the awaited pyRes.json() rejects
UpstreamBodyUnreadable ==
  /\ analyzePc = "json"
  /\ upstream' = "body"
  /\ AnalyzeCatch
  /\ UNCHANGED <<analyzeReq, alang>>
  /\ UNCHANGED <<svars, cvars, pvars, qvars>>

\* lines 194-195: the awaited pyRes.json() resolves and is relayed
UpstreamBodyRead ==
  /\ analyzePc = "json"
  /\ \E data \in UpstreamData : analyzeRes' = AnalyzeJson(Relayed(data))
  /\ analyzePc' = "done"
  /\ upstream' = "data"
  /\ UNCHANGED <<analyzeReq, alang>>
  /\ UNCHANGED <<svars, cvars, pvars, qvars>>

AnalyzeNext ==
  \/ AnalyzeStart
  \/ UpstreamUnreachable
  \/ UpstreamAnswers
  \/ UpstreamErrorText
  \/ UpstreamBodyUnreadable
  \/ UpstreamBodyRead

(***************************************************************************)
(* chat.js: the session id over page loads and requests                    *)
(***************************************************************************)
\* the browser before the page is opened: storage empty, or holding the id of
\* an earlier visit
SessionInit ==
  /\ storage \in {NoSession, EarlierSession}
  /\ sessionId = NoSession
  /\ sessionLog = << >>
  /\ reqs = IdleRequests
  /\ analyzeReq = [file |-> FALSE, lang |-> NoLang]
  /\ alang = NoLang
  /\ analyzePc = "idle"
  /\ analyzeRes = NoAnalyzeRes
  /\ upstream = "none"
  /\ chatHistory = << >>
  /\ exerciseState = NoExercise
  /\ controls = {}
  /\ lastBubble = "Hi! I'm U-Well"
  /\ completions = << >>
  /\ sends = << >>
  /\ crisisVisible = FALSE
  /\ arrivals = 0
  /\ lastOp = "load"
  /\ arrived = NoAnalysis
  /\ photoRequestActive = FALSE
  /\ speech = << >>
  /\ autoSpeak = TRUE
  /\ received = NoResponse
  /\ provider = "google"
  /\ credentials = TRUE
  /\ body = [message |-> NoMessage, lang |-> NoLang]
  /\ lang = NoLang
  /\ attempt = 0
  /\ chatPc = "idle"
  /\ timer = 0
  /\ res = NoRes
  /\ sent = 0
  /\ calls = 0
  /\ threw = 0
  /\ returned = 0
  /\ failed = 0
  /\ slept = 0
  /\ result = NoResult

SessionEvent(kind, found, id, generated) ==
  [kind |-> kind, found |-> found, sessionId |-> id, generated |-> generated]

\* a script that generates an id on every load
PageLoad_AlwaysFresh ==
  /\ Len(sessionLog) < MaxEvents
  /\ LET id == FreshSession(Generated(sessionLog) + 1)
     IN /\ sessionId' = id
        /\ storage' = id
        /\ sessionLog' = Append(sessionLog, SessionEvent("load", storage, id, TRUE))
  /\ UNCHANGED <<svars, cvars, avars, qvars>>

\* lines 9-14: the script runs on a page load
PageLoad ==
  /\ Len(sessionLog) < MaxEvents
  /\ IF storage = NoSession
       THEN LET id == FreshSession(Generated(sessionLog) + 1)
            IN /\ sessionId' = id
               /\ storage' = id
               /\ sessionLog' = Append(sessionLog, SessionEvent("load", storage, id, TRUE))
       ELSE /\ sessionId' = storage
            /\ UNCHANGED storage
            /\ sessionLog' = Append(sessionLog, SessionEvent("load", storage, storage, FALSE))
  /\ UNCHANGED <<svars, cvars, avars, qvars>>

\* line 551: the body of a chat send carries sessionId
ChatRequest ==
  /\ sessionId # NoSession
  /\ Len(sessionLog) < MaxEvents
  /\ sessionLog' = Append(sessionLog, SessionEvent("chat", storage, sessionId, FALSE))
  /\ UNCHANGED <<storage, sessionId>>
  /\ UNCHANGED <<svars, cvars, avars, qvars>>

\* line 361: the form of an image upload carries sessionId
UploadRequest ==
  /\ sessionId # NoSession
  /\ Len(sessionLog) < MaxEvents
  /\ sessionLog' = Append(sessionLog, SessionEvent("analyze", storage, sessionId, FALSE))
  /\ UNCHANGED <<storage, sessionId>>
  /\ UNCHANGED <<svars, cvars, avars, qvars>>

SessionNext ==
  \/ PageLoad
  \/ ChatRequest
  \/ UploadRequest

(***************************************************************************)
(* server.js: two requests in flight                                       *)
(***************************************************************************)
\* both requests have arrived; neither handler has run yet
PairInit ==
  /\ chatHistory = << >>
  /\ exerciseState = NoExercise
  /\ controls = {}
  /\ lastBubble = "Hi! I'm U-Well"
  /\ completions = << >>
  /\ sends = << >>
  /\ crisisVisible = FALSE
  /\ arrivals = 0
  /\ lastOp = "load"
  /\ arrived = NoAnalysis
  /\ photoRequestActive = FALSE
  /\ speech = << >>
  /\ autoSpeak = TRUE
  /\ received = NoResponse
  /\ provider \in Providers
  /\ credentials \in BOOLEAN
  /\ body = [message |-> NoMessage, lang |-> NoLang]
  /\ lang = NoLang
  /\ attempt = 0
  /\ chatPc = "idle"
  /\ timer = 0
  /\ res = NoRes
  /\ sent = 0
  /\ calls = 0
  /\ threw = 0
  /\ returned = 0
  /\ failed = 0
  /\ slept = 0
  /\ result = NoResult
  /\ analyzeReq = [file |-> FALSE, lang |-> NoLang]
  /\ alang = NoLang
  /\ analyzePc = "idle"
  /\ analyzeRes = NoAnalyzeRes
  /\ upstream = "none"
  /\ storage = NoSession
  /\ sessionId = NoSession
  /\ sessionLog = << >>
  /\ reqs \in [Requests -> {HandlerAt(b, "received") : b \in PairBodies}]

\* lines 161-174 for request i: the catch block
CatchOf(i) ==
  LET r == reqs[i]
  IN IF r.attempt >= maxAttempts
       THEN [r EXCEPT !.pc = "done", !.res = SoftApology(r.lang), !.sent = r.sent + 1]
       ELSE [r EXCEPT !.pc = "sleep", !.timer = backoff(r.attempt)]

\* lines 74-118 for request i
StartOf(i) ==
  LET r == reqs[i]
      l == IF r.body.lang = NoLang THEN "en" ELSE r.body.lang
  IN /\ r.pc = "received"
     /\ reqs' = [reqs EXCEPT ![i] =
          IF ~credentials
            THEN [r EXCEPT !.lang = l, !.pc = "done", !.sent = r.sent + 1,
                   !.res = ErrorRes(500, "Missing API credentials for selected provider")]
            ELSE [r EXCEPT !.lang = l, !.attempt = 1, !.pc = "await"]]

\* the provider call awaited by request i rejects; lines 161-174
ThrowsFor(i) ==
  /\ reqs[i].pc = "await"
  /\ reqs' = [reqs EXCEPT ![i] = [CatchOf(i) EXCEPT !.log = Append(reqs[i].log, Threw)]]

\* the provider call awaited by request i resolves; lines 119-159
ReturnsFor(i) ==
  /\ reqs[i].pc = "await"
  /\ \E j \in PairResults(provider) :
       LET r == reqs[i]
           c == Classify(j, r.body.message, r.lang)
           after == IF c.throws
                      THEN CatchOf(i)
                      ELSE [r EXCEPT !.pc = "done", !.res = c.res, !.sent = r.sent + 1]
       IN reqs' = [reqs EXCEPT ![i] = [after EXCEPT !.log = Append(r.log, Returned(j))]]

\* time passes for the sleep of request i
TickFor(i) ==
  LET r == reqs[i]
  IN /\ r.pc = "sleep"
     /\ r.timer > 0
     /\ reqs' = [reqs EXCEPT ![i] =
          [r EXCEPT !.timer = Max(0, r.timer - BackoffBaseMs),
                    !.slept = r.slept + Min(r.timer, BackoffBaseMs)]]

\* a retry loop whose counter is one variable of the module
WakeOf_SharedAttempt(i) ==
  LET r == reqs[i]
  IN /\ r.pc = "sleep"
     /\ r.timer = 0
     /\ reqs' = [k \in Requests |->
          IF k = i
            THEN IF r.attempt + 1 <= maxAttempts
                   THEN [r EXCEPT !.attempt = r.attempt + 1, !.pc = "await"]
                   ELSE [r EXCEPT !.attempt = r.attempt + 1, !.pc = "done",
                                  !.sent = r.sent + 1,
                                  !.res = ErrorRes(429, "Quota exceeded")]
            ELSE [reqs[k] EXCEPT !.attempt = r.attempt + 1]]

\* the sleep of request i resolves: attempt++, loop test; lines 113, 173-176
WakeOf(i) ==
  LET r == reqs[i]
  IN /\ r.pc = "sleep"
     /\ r.timer = 0
     /\ reqs' = [reqs EXCEPT ![i] =
          IF r.attempt + 1 <= maxAttempts
            THEN [r EXCEPT !.attempt = r.attempt + 1, !.pc = "await"]
            ELSE [r EXCEPT !.attempt = r.attempt + 1, !.pc = "done",
                           !.sent = r.sent + 1,
                           !.res = ErrorRes(429, "Quota exceeded")]]

PairStart ==
  /\ \E i \in Requests : StartOf(i)
  /\ UNCHANGED <<svars, cvars, avars, pvars>>

PairThrows ==
  /\ \E i \in Requests : ThrowsFor(i)
  /\ UNCHANGED <<svars, cvars, avars, pvars>>

PairReturns ==
  /\ \E i \in Requests : ReturnsFor(i)
  /\ UNCHANGED <<svars, cvars, avars, pvars>>

PairTick ==
  /\ \E i \in Requests : TickFor(i)
  /\ UNCHANGED <<svars, cvars, avars, pvars>>

PairWake ==
  /\ \E i \in Requests : WakeOf(i)
  /\ UNCHANGED <<svars, cvars, avars, pvars>>

PairNext ==
  \/ PairStart
  \/ PairThrows
  \/ PairReturns
  \/ PairTick
  \/ PairWake

ChatSpec == ChatInit /\ [][ServerNext]_vars

\* the handler runs once the request is received, every awaited provider call
\* settles, and the setTimeout of the backoff sleep fires
ChatFairness ==
  /\ WF_vars(ChatStart)
  /\ WF_vars(ProviderThrows \/ ProviderReturns)
  /\ WF_vars(BackoffTick)
  /\ WF_vars(BackoffWake)

\* one request has arrived, with one of the bodies that differ in how the
\* handler runs: a plain message, a trigger word, no message at all
ChatLiveInit ==
  /\ provider \in Providers
  /\ credentials \in BOOLEAN
  /\ body \in PairBodies
  /\ lang = NoLang
  /\ attempt = 0
  /\ chatPc = "received"
  /\ timer = 0
  /\ res = NoRes
  /\ sent = 0
  /\ calls = 0
  /\ threw = 0
  /\ returned = 0
  /\ failed = 0
  /\ slept = 0
  /\ result = NoResult
  /\ chatHistory = << >>
  /\ exerciseState = NoExercise
  /\ controls = {}
  /\ lastBubble = "Hi! I'm U-Well"
  /\ completions = << >>
  /\ sends = << >>
  /\ crisisVisible = FALSE
  /\ arrivals = 0
  /\ lastOp = "load"
  /\ arrived = NoAnalysis
  /\ photoRequestActive = FALSE
  /\ speech = << >>
  /\ autoSpeak = TRUE
  /\ received = NoResponse
  /\ analyzeReq = [file |-> FALSE, lang |-> NoLang]
  /\ alang = NoLang
  /\ analyzePc = "idle"
  /\ analyzeRes = NoAnalyzeRes
  /\ upstream = "none"
  /\ storage = NoSession
  /\ sessionId = NoSession
  /\ sessionLog = << >>
  /\ reqs = IdleRequests

ChatLiveSpec == ChatLiveInit /\ [][ServerNext]_vars /\ ChatFairness

ExerciseSpec == ClientInit /\ [][ExerciseNext]_vars

SendSpec == ClientInit /\ [][SendNext]_vars

AnalyzeSpec == AnalyzeInit /\ [][AnalyzeNext]_vars

SessionSpec == SessionInit /\ [][SessionNext]_vars

PairSpec == PairInit /\ [][PairNext]_vars

(***************************************************************************)
(* Properties of POST /api/chat                                            *)
(***************************************************************************)
Done == chatPc = "done"

\* the request carries a message with a crisis keyword, in a supported locale
CrisisRequest ==
  /\ credentials
  /\ body.message # NoMessage
  /\ HasTrigger(body.message)
  /\ lang \in Locales

\* the extracted reply of j is null, empty or whitespace-only
EmptyReply(j) ==
  LET r == extractReplyFromProviderObj(j)
  IN r = JNull \/ r.v \in {EmptyStr, Blank}

NonEmptyList(h) == h.t = "array" /\ h.a # << >>

\* C1: every answered request whose message holds a crisis keyword gets
\* type "crisis" with a non-empty helpline list, whatever the provider did.
C1_CrisisAlways ==
  (Done /\ CrisisRequest) => (res.type = "crisis" /\ NonEmptyList(res.helplines))

\* C2: when the message holds a crisis keyword and the provider returned a
\* non-empty reply, the response carries the server's own crisis message and
\* the static helpline list of the locale, also when the reply declares a
\* crisis itself.
C2_ServerCrisisWins ==
  (Done /\ CrisisRequest /\ returned > 0 /\ ~EmptyReply(result))
    => /\ res.type = "crisis"
       /\ res.text = JStr(CrisisText(lang))
       /\ res.helplines = JArr(fallbackHelplines[lang])

\* C3: if every provider call threw, the handler made exactly 3 calls and sent
\* one HTTP 200 {type: "reply"} apology, Hindi for lang hi, English otherwise.
C3_ThrowAlwaysSoftReply ==
  (Done /\ credentials /\ threw = calls)
    => /\ calls = 3
       /\ sent = 1
       /\ res.status = 200
       /\ res.type = "reply"
       /\ res.text = JStr(IF lang = "hi"
                            THEN Plain("hi: Sorry, a server error occurred. Please try again.")
                            ELSE Plain("Sorry, a server error occurred. Please try again."))

C3_Witness == Done /\ credentials /\ threw = 3 /\ calls = 3 /\ lang = "hi" /\ res.type = "reply"

\* ms of backoff that precede attempt n: 0, 1000, 1000 + 2000
SleptBefore(n) == CASE n = 1 -> 0 [] n = 2 -> 1000 [] n = 3 -> 3000 [] OTHER -> -1

\* C4: attempt n+1 starts only after the whole sleep that follows failed
\* attempt n (1000 ms, then 2000 ms) has elapsed, there is no sleep after the
\* last attempt, and a response after three failed attempts has slept 3000 ms.
C4_BackoffSchedule ==
  /\ (chatPc \in {"await", "done"} /\ attempt >= 1) => slept = SleptBefore(attempt)
  /\ chatPc = "sleep" => (attempt < 3 /\ slept + timer = SleptBefore(attempt + 1))
  /\ (Done /\ failed = 3) => slept = 3000

C4_Witness == Done /\ failed = 3 /\ attempt = 3 /\ slept = 3000

\* C5 as claimed: after the last attempt has failed the response is
\* 429 {error: "Quota exceeded"}.
C5_Exhaustion429 ==
  (Done /\ failed = maxAttempts) => (res.status = 429 /\ res.error = "Quota exceeded")

\* C5 as amended: after the last attempt has failed the response is the
\* HTTP 200 soft apology, and no request is ever answered with 429.
C5_ExhaustionSoftReply ==
  /\ (Done /\ failed = maxAttempts)
       => res = Json200("reply", JStr(ServerErrorText(lang)), Undef, JBool(FALSE))
  /\ res.status # 429

C5_Witness == Done /\ failed = maxAttempts /\ res.status = 200 /\ returned > 0

\* C6: once a provider call has returned a null, empty or whitespace-only
\* reply, the handler has answered with the "could not generate a response"
\* reply of the locale (request_photo false), on the attempt of that call.
C6_EmptyReplyAnswered ==
  (returned > 0 /\ EmptyReply(result))
    => /\ Done
       /\ sent = 1
       /\ res.status = 200
       /\ res.type = "reply"
       /\ res.text = JStr(EmptyReplyText(lang))
       /\ res.request_photo = JBool(FALSE)
       /\ calls = attempt
       /\ calls = threw + returned

C6_Witness ==
  /\ Done /\ returned = 1 /\ attempt = 2 /\ lang = "hi"
  /\ result.shape = "openai" /\ result.content = [Plain("") EXCEPT !.fence = TRUE]
  /\ res.text = JStr(EmptyReplyText("hi"))

\* C7 as claimed: a result of neither envelope shape is answered only when no
\* attempt remains, that is, it is retried while attempts remain.
C7_UnknownShapeRetried ==
  (returned > 0 /\ result.shape = "other" /\ Done) => attempt = maxAttempts

\* C7 as amended: a result of neither envelope shape extracts to null and is
\* answered at once, on that attempt, with the "could not generate a response"
\* reply; it is neither retried nor does it fail the attempt.
C7_UnknownShapeAnswered ==
  (returned > 0 /\ result.shape = "other")
    => /\ extractReplyFromProviderObj(result) = JNull
       /\ Done
       /\ res = Json200("reply", JStr(EmptyReplyText(lang)), Undef, JBool(FALSE))
       /\ failed = attempt - 1
       /\ calls = attempt

C7_Witness == Done /\ returned = 1 /\ result.shape = "other" /\ attempt = 1 /\ calls = 1

(***************************************************************************)
(* Properties of the guided exercise and the transcript                    *)
(***************************************************************************)
\* C8: while an exercise is live, 0 <= currentStep < totalSteps, and
\* totalSteps is the length of the recommendation list of its analysis.
C8_StepInRange ==
  exerciseState.live
    => /\ 0 <= exerciseState.currentStep
       /\ exerciseState.currentStep < exerciseState.totalSteps
       /\ exerciseState.totalSteps = Len(exerciseState.analysis.recommendations.items)

\* a Next that only a control of an earlier, longer analysis can have issued
C8_Witness ==
  /\ lastOp = "next"
  /\ exerciseState.live
  /\ exerciseState.totalSteps = 1
  /\ exerciseState.currentStep = 0
  /\ \E c \in controls : c.total = 3

\* C9: a "complete" in any OnStep state leaves no exercise live and emits one
\* completion message, which reports totalSteps and the score of the analysis
\* (0 when it has none).
C9_CompleteReports ==
  [][(lastOp' = "complete" /\ exerciseState.live)
       => /\ ~exerciseState'.live
          /\ completions' =
               Append(completions,
                      [steps |-> exerciseState.totalSteps,
                       score |-> IF exerciseState.analysis.score = NoScore THEN 0
                                 ELSE exerciseState.analysis.score])]_vars

\* two recommendations, "next", then "complete": the message reports 2 steps
C9_Witness ==
  /\ lastOp = "complete"
  /\ ~exerciseState.live
  /\ completions = << [steps |-> 2, score |-> 85] >>
  /\ controls = {[idx |-> 0, total |-> 2], [idx |-> 1, total |-> 2]}
  /\ arrivals = 1

ClientFailures == {"status", "network", "body", "timeout"}

\* C10: a chat send that fails on the client and that no other send or analysis
\* result overlapped leaves the transcript as it was before its user turn was
\* appended.
C10_RollbackRestores ==
  \A i \in DOMAIN sends :
    (sends[i].pc = "done" /\ sends[i].outcome \in ClientFailures /\ ~sends[i].overlap)
      => (sends[i].after = sends[i].before /\ Len(sends[i].after) = Len(sends[i].before))

C10_Witness ==
  \E i \in DOMAIN sends :
    /\ sends[i].pc = "done" /\ sends[i].outcome = "timeout" /\ ~sends[i].overlap
    /\ Len(sends[i].before) = 3
    /\ chatHistory = sends[i].before

AnalyzeDone == analyzePc = "done"

\* the upstream call could not be reached, answered a non-success status, or
\* answered a body that could not be read
UpstreamFailed == upstream \in {"unreachable", "status", "body"}

\* C11: /api/analyze answers 400 when the request carries no file; with a file,
\* when the posture service is unreachable, answers a non-success status or an
\* unreadable body, it answers 200 with a fallback analysis that has at least
\* one recommendation and a note that the service was unreachable
C11_AnalyzeFallback ==
  AnalyzeDone =>
    /\ ~analyzeReq.file => analyzeRes.status = 400
    /\ (analyzeReq.file /\ UpstreamFailed) =>
         /\ analyzeRes.status = 200
         /\ analyzeRes.json.type = "analysis"
         /\ "recommendations" \in analyzeRes.json.fields
         /\ analyzeRes.json.recommendations.isArray
         /\ Len(analyzeRes.json.recommendations.items) >= 1
         /\ "notes" \in analyzeRes.json.fields
         /\ analyzeRes.json.notes = OfflineNote

C11_Witness ==
  /\ AnalyzeDone /\ analyzeReq.file /\ upstream = "body" /\ alang = "hi"
  /\ analyzeRes = AnalyzeJson(FallbackAnalysis("hi"))

\* C12: every 200 response of /api/analyze, relayed or fallback, has type
\* "analysis" and carries the summary, score and recommendations fields
C12_AnalysisShape ==
  (AnalyzeDone /\ analyzeRes.status = 200) =>
    /\ analyzeRes.json.type = "analysis"
    /\ {"type", "summary", "score", "recommendations"} \subseteq analyzeRes.json.fields

\* C13: with no API key configured for the selected provider, /api/chat still
\* answers with a usable reply (a demo response), not with an error
C13_DemoWithoutKey ==
  (Done /\ ~credentials) =>
    /\ res.status = 200
    /\ res.type = "reply"
    /\ Truthy(res.text)

\* the one provider call returned a structured payload, fenced or not, and the
\* message is present and holds no crisis keyword
PayloadAnswered ==
  /\ Done /\ credentials
  /\ returned = 1 /\ threw = 0
  /\ result.shape = ShapeOf(provider)
  /\ result.content.json
  /\ body.message # NoMessage
  /\ ~HasTrigger(body.message)

\* the object the provider's reply encodes
Payload == result.content.obj

\* C17: a structured payload of kind "crisis", for a message without a crisis
\* keyword, is answered with type crisis, the payload's message as text and the
\* payload's own helpline list if it has one, else the fallback list of the
\* locale, whichever provider is configured
C17_ModelCrisisRelayed ==
  (PayloadAnswered /\ Payload.type = JStr(Plain("crisis"))) =>
    /\ res.status = 200
    /\ res.type = "crisis"
    /\ res.text = Payload.text
    /\ res.helplines = OrElse(Payload.helplines, FallbackFor(lang))

\* C18: when no crisis applies and the reply is a structured payload, the
\* ordinary reply has request_photo true if the payload declares it true and
\* false if the payload declares none, whichever provider is configured
C18_PhotoFlagRelayed ==
  (PayloadAnswered /\ Payload.type # JStr(Plain("crisis")) /\ ~EmptyReply(result)) =>
    /\ res.type = "reply"
    /\ Payload.request_photo = JBool(TRUE) => res.request_photo = JBool(TRUE)
    /\ Payload.request_photo = Undef => res.request_photo = JBool(FALSE)

\* C19: a structured payload of kind reply with message text T is answered with
\* the plain text T, not with the JSON encoding of the payload, whichever
\* provider is configured
C19_PlainTextReply ==
  (PayloadAnswered /\ Payload.type = JStr(Plain("reply")) /\ Payload.text = JStr(ModelText)) =>
    /\ res.type = "reply"
    /\ res.text = JStr(ModelText)

\* C14: over any sequence of page loads, chat sends and image uploads, an id is
\* generated at most once and only by a load that finds storage empty; once set
\* the stored id never changes, and every request carries the stored id
C14_SessionIdStable ==
  /\ Generated(sessionLog) <= 1
  /\ \A i \in DOMAIN sessionLog :
       /\ sessionLog[i].generated <=>
            (sessionLog[i].kind = "load" /\ sessionLog[i].found = NoSession)
       /\ sessionLog[i].sessionId # NoSession
       /\ sessionLog[i].sessionId = storage
       /\ sessionLog[i].kind # "load" => sessionLog[i].sessionId = sessionLog[i].found
       /\ sessionLog[i].found # NoSession => sessionLog[i].found = storage

C14_Witness ==
  /\ Len(sessionLog) = MaxEvents
  /\ Generated(sessionLog) = 1
  /\ Cardinality({i \in DOMAIN sessionLog : sessionLog[i].kind = "load"}) >= 2
  /\ \E i, j \in DOMAIN sessionLog :
       /\ i < j
       /\ sessionLog[i].kind = "chat"
       /\ sessionLog[j].kind = "analyze"
       /\ \E k \in i..j : sessionLog[k].kind = "load"

\* the user turn send i pushed is in transcript h
OwnTurnIn(i, h) == \E k \in DOMAIN h : h[k] = UserTurn(sends[i].text, i)

\* C15: for each send, a timer that fires before the response has arrived
\* cancels the request with the timeout outcome and the send's own user turn is
\* rolled back; once the response has arrived the timer is cleared and the send
\* can no longer time out
C15_TimeoutRollsBack ==
  \A i \in DOMAIN sends :
    /\ sends[i].timer = "fired" =>
         /\ sends[i].pc = "done"
         /\ sends[i].outcome = "timeout"
         /\ ~OwnTurnIn(i, sends[i].after)
    /\ sends[i].timer = "armed" => sends[i].pc = "fetch"
    /\ sends[i].pc \in {"errorBody", "json"} => sends[i].timer = "cleared"
    /\ sends[i].outcome = "timeout" => sends[i].timer = "fired"

\* C16: the turn a failed send removes is its own user turn, whatever was
\* appended while it was in flight; when every send has finished the transcript
\* holds no user turn of a failed send and every turn of a successful one
C16_OwnTurnRemoved ==
  /\ \A i \in DOMAIN sends :
       sends[i].outcome \in ClientFailures =>
         ~OwnTurnIn(i, sends[i].after)
  /\ (\A i \in DOMAIN sends : sends[i].pc = "done") =>
       \A i \in DOMAIN sends :
         /\ sends[i].outcome \in ClientFailures => ~OwnTurnIn(i, chatHistory)
         /\ sends[i].outcome = "ok" =>
              /\ OwnTurnIn(i, chatHistory)
              /\ \E k \in DOMAIN chatHistory :
                   chatHistory[k].role = "model" /\ chatHistory[k].send = i

\* C20: every click on a "next" control that changes the exercise moves
\* currentStep from i to i + 1 and happens only when i < totalSteps - 1; every
\* such click on a "previous" control moves it from i to i - 1 and happens only
\* when i > 0; this for every control in the message list, also those rendered
\* for earlier steps
C20_StepByOne ==
  [][/\ (lastOp' = "next" /\ exerciseState' # exerciseState) =>
          /\ exerciseState.currentStep < exerciseState.totalSteps - 1
          /\ exerciseState'.currentStep = exerciseState.currentStep + 1
     /\ (lastOp' = "prev" /\ exerciseState' # exerciseState) =>
          /\ exerciseState.currentStep > 0
          /\ exerciseState'.currentStep = exerciseState.currentStep - 1]_vars

\* C21: whenever an exercise is live at step i, the controls rendered for step i
\* (with their "complete" button) are in the message list, for every
\* recommendation list handleAnalysisResult accepts, also one with falsy steps
C21_CompleteAvailable ==
  exerciseState.live =>
    [idx |-> exerciseState.currentStep, total |-> exerciseState.totalSteps] \in controls

\* the recommendations of analysis a are a non-empty array
HasRecommendations(a) == a.recommendations.isArray /\ Len(a.recommendations.items) > 0

\* this step handles an analysis result that arrived from an upload
AnalysisArrives == lastOp' = "analysis" /\ arrivals' = arrivals + 1

\* C22: an arriving analysis with N > 0 recommendations makes the exercise
\* OnStep(0) with totalSteps = N for that analysis, whatever the state before;
\* an arriving analysis without recommendations leaves no exercise live; a
\* failed upload leaves the exercise state as it was
C22_ArrivalSupersedes ==
  [][/\ (AnalysisArrives /\ HasRecommendations(arrived')) =>
          exerciseState' = [live |-> TRUE, analysis |-> arrived', currentStep |-> 0,
                            totalSteps |-> Len(arrived'.recommendations.items)]
     /\ (AnalysisArrives /\ ~HasRecommendations(arrived')) => exerciseState' = NoExercise
     /\ lastOp' = "uploadFailed" => exerciseState' = exerciseState]_vars

\* a second analysis has replaced an exercise that was under way at step 1
C22_Witness ==
  /\ lastOp = "analysis" /\ arrivals = 2
  /\ exerciseState.live /\ exerciseState.currentStep = 0 /\ exerciseState.totalSteps = 1
  /\ completions = << >>
  /\ [idx |-> 1, total |-> 3] \in controls

StepSpeeches(sp) == {k \in DOMAIN sp : sp[k].kind = "step"}

\* C27: every arrival of an analysis with recommendations makes exactly one
\* call that speaks a step (uttered when speech is switched on), an arrival
\* without recommendations none, and no previous/next navigation speaks a step
C27_StepSpokenOnArrivalOnly ==
  [][/\ (AnalysisArrives /\ HasRecommendations(arrived')) =>
          /\ Cardinality(StepSpeeches(speech')) = 1
          /\ \A k \in StepSpeeches(speech') : speech'[k].aloud = autoSpeak
     /\ (AnalysisArrives /\ ~HasRecommendations(arrived')) => StepSpeeches(speech') = {}
     /\ lastOp' \in {"prev", "next"} => StepSpeeches(speech') = {}]_vars

\* "next" has shown step 2 of a live exercise and nothing was spoken
C27_Witness ==
  /\ lastOp = "next" /\ exerciseState.live /\ exerciseState.currentStep = 1
  /\ autoSpeak /\ speech = NoSpeech
  /\ lastBubble # "Step not available."

\* C29: while no exercise is live, a click on a previous, next or complete
\* control left in the message list changes nothing and emits nothing; so there
\* are never more completion messages than analyses handled
C29_IdleClicksInert ==
  /\ [](Len(completions) <= arrivals)
  /\ [][(~exerciseState.live /\ lastOp' \in {"prev", "next", "complete"}) =>
          /\ exerciseState' = NoExercise
          /\ completions' = completions
          /\ lastBubble' = lastBubble
          /\ controls' = controls
          /\ chatHistory' = chatHistory
          /\ speech' = NoSpeech]_vars

\* after a completion, a click on a "complete" control that is still there
C29_Witness ==
  /\ lastOp = "complete" /\ ~exerciseState.live
  /\ Len(completions) = 1 /\ controls # {}
  /\ speech = NoSpeech

\* C25: in what the provider is given for send i, the new user message is there
\* exactly once: the history the client sent holds only the turns before the
\* new message, and the server adds the message once after them
C25_MessageOnce ==
  \A i \in DOMAIN sends :
    LET own == UserTurn(sends[i].text, i)
        req == ProviderRequest(sends[i].history, own)
    IN /\ sends[i].history = sends[i].before
       /\ Cardinality({k \in DOMAIN req : req[k] = own}) = 1

\* this step ends send i with a response that was read
Received(i) == sends[i].pc = "json" /\ sends'[i].pc = "done"

\* C26: a received reply with request_photo true makes the client's photo
\* request active; a reply without the flag does not
C26_PhotoPrompt ==
  [][\A i \in DOMAIN sends :
       (Received(i) /\ received'.type = "reply" /\ received'.text # "") =>
         /\ received'.request_photo => photoRequestActive'
         /\ ~received'.request_photo => photoRequestActive' = photoRequestActive]_vars

\* the response is of type crisis, with text and a non-empty helplines array
CrisisWithHelplines(r) ==
  r.type = "crisis" /\ r.text # "" /\ r.helplines \in {"list", "malformed"}

\* this step ends send i while no other send is in flight
CompletesAlone(i) ==
  /\ InFlight(sends[i]) /\ sends'[i].pc = "done"
  /\ \A k \in DOMAIN sends : k # i => ~InFlight(sends[k])

\* C28 as stated: the box is hidden when a send starts; when a send completes
\* with no other send in flight the box is visible iff the response was a
\* crisis with text and a non-empty helplines array, and hidden if the send failed
C28_CrisisBoxHiddenOnFailure ==
  [][/\ Len(sends') = Len(sends) + 1 => ~crisisVisible'
     /\ \A i \in DOMAIN sends :
          CompletesAlone(i) =>
            IF sends'[i].outcome = "ok"
              THEN crisisVisible' <=> CrisisWithHelplines(received')
              ELSE ~crisisVisible']_vars

\* C28 as the code has it: a failed send leaves the box as it was, hidden if
\* nothing overlapped the send
C28_CrisisBoxKeptOnFailure ==
  [][/\ Len(sends') = Len(sends) + 1 => ~crisisVisible'
     /\ \A i \in DOMAIN sends :
          CompletesAlone(i) =>
            IF sends'[i].outcome = "ok"
              THEN crisisVisible' <=> CrisisWithHelplines(received')
              ELSE /\ crisisVisible' = crisisVisible
                   /\ ~sends'[i].overlap => ~crisisVisible']_vars

\* send 1 failed last, after the crisis response of send 2 had shown the box
C28_Witness ==
  /\ Len(sends) = 2 /\ lastOp = "sendFailed"
  /\ sends[1].outcome = "network"
  /\ sends[2].outcome = "ok" /\ CrisisWithHelplines(received)
  /\ crisisVisible


\* ---------------------------------------------------------------------------
\* C23: a request whose provider has credentials ends with exactly one response
\* written, after at most maxAttempts provider calls, as long as every call
\* settles; no run writes two responses and no finished run has written none.
C23_ExactlyOneResponse ==
  /\ [](sent <= 1 /\ calls <= maxAttempts)
  /\ [](Done => sent = 1 /\ res # NoRes)
  /\ (credentials => <>(Done /\ sent = 1))

\* the third call is the one that answers, after two failures and two sleeps
C23_Witness ==
  /\ Done /\ credentials /\ sent = 1
  /\ calls = maxAttempts /\ failed = 2 /\ returned >= 1 /\ res.status = 200

\* C24: once a provider call has returned, the handler makes no further
\* provider call, whatever happens while the returned value is classified.
C24_RetryOnlyOnThrow == [][returned >= 1 => calls' = calls]_vars


\* ---------------------------------------------------------------------------
\* C30: with two /api/chat requests in flight, in every interleaving, each
\* request's attempt counter, backoff and outcome are those of its handler run
\* alone on its own body and its own provider outcomes, and a step of one
\* handler leaves the other request as it was.
AsAlone(i) ==
  LET r == reqs[i]
      e == Alone(r.body, credentials, r.log)
  IN CASE r.pc = "received" ->
            r.attempt = 0 /\ r.slept = 0 /\ r.sent = 0 /\ r.log = << >>
       [] r.pc = "await" ->
            /\ e.pc = "await" /\ r.attempt = e.attempt
            /\ r.timer = 0 /\ r.slept = e.due /\ r.sent = 0
       [] r.pc = "sleep" ->
            /\ e.pc = "await" /\ r.attempt = e.attempt - 1
            /\ r.timer + r.slept = e.due /\ r.sent = 0
       [] r.pc = "done" ->
            /\ e.pc = "done" /\ r.attempt = e.attempt
            /\ r.slept = e.due /\ r.res = e.res /\ r.sent = 1
       [] OTHER -> FALSE

C30_RequestsIndependent ==
  /\ [](\A i \in Requests : AsAlone(i))
  /\ [][\A i \in Requests : reqs'[i] # reqs[i] =>
          \A k \in Requests \ {i} : reqs'[k] = reqs[k]]_vars

\* both in flight at once, on different attempts with different delays
C30_Witness ==
  /\ reqs[1].pc = "sleep" /\ reqs[1].attempt = 2 /\ reqs[1].timer = backoff(2)
  /\ reqs[2].pc = "sleep" /\ reqs[2].attempt = 1 /\ reqs[2].timer = 0
  /\ reqs[1].body = reqs[2].body

====
